---------------------------- MODULE Spec2Model ----------------------------
(***************************************************************************)
(* Model of drivers/usb/repeater/repeater-i2c-eusb2.c: the eUSB2 repeater  *)
(* driver's regulator sequencing (eusb2_repeater_power), its tuning buffer  *)
(* (eusb2_repeater_tune_store, eusb2_repeater_tune_set,                    *)
(* eusb2_repeater_tune_show) and the override arrays that                  *)
(* eusb2_repeater_init plays (eusb2_repeater_update_seq).                  *)
(*                                                                         *)
(* eusb2_repeater_power runs one regulator call per step, pc being its      *)
(* position, and eusb2_repeater_init one iteration of its loops per step;  *)
(* the handlers of the tuning attribute hold er_tune_lock from start to    *)
(* end and are one action each, except where callers run concurrently:     *)
(* there a caller takes the lock in one step and does the rest in another. *)
(* Every call into the regulator framework and into                        *)
(* regmap can succeed or fail, and every combination of outcomes is        *)
(* explored.  The variables op, pre_power, pre_cnt, pre_buf, arg, ret,     *)
(* calls and io record what the last handler was given and did, so that    *)
(* properties of a call can be stated over the state it leaves behind.     *)
(***************************************************************************)
EXTENDS Integers, Sequences, FiniteSets

VARIABLES
    power_enabled,  \* er->power_enabled
    vdd18,          \* the driver's request on the 1.8 V regulator
    vdd3,           \* the driver's request on the 3.0 V regulator
    tune_buf,       \* ter->tune_buf[TUNE_BUF_COUNT][2]
    tune_buf_cnt,   \* ter->tune_buf_cnt
    regs,           \* the chip's registers behind er->regmap
    op,             \* the handler that ran last
    pre_power,      \* power_enabled when that handler was entered
    pre_clean,      \* whether both regulators were released at that moment
    pre_cnt,        \* tune_buf_cnt when that handler was entered
    pre_buf,        \* tune_buf when that handler was entered
    arg,            \* the <<reg, val>> that handler was given
    ret,            \* the value that handler returned
    calls,          \* the regulator calls that handler made, in order
    io,             \* the regmap calls that handler made, in order
    pc,             \* where the running eusb2_repeater_power is, or "idle"
    prev,           \* what the handler did that ran before the last
                    \* eusb2_repeater_power was entered
    repeater_type,  \* er->chip->repeater_type
    is_host,        \* er->ur.is_host
    usb_notifier,   \* whether the build has CONFIG_USB_NOTIFIER
    num_elem,       \* the lengths of the two device-tree properties
    param_override_seq,           \* er->param_override_seq
    param_override_seq_cnt,       \* er->param_override_seq_cnt
    param_host_override_seq,      \* er->param_host_override_seq
    param_host_override_seq_cnt,  \* er->param_host_override_seq_cnt
    probe_ret,      \* what eusb2_repeater_i2c_probe returned
    idx,            \* the loop variable i of the running update_seq or tune_set
    played,         \* the writes the running eusb2_repeater_init has asked for
    text,           \* what the last eusb2_repeater_tune_show put in buf
    er_tune_lock,   \* ter->er_tune_lock: the caller that holds it, or "none"
    tpc,            \* where each concurrent caller of a tuning function is
    acc,            \* who last read or wrote tune_buf_cnt, and whether that
                    \* caller held er_tune_lock
    left            \* which concurrent caller returned last from a tuning
                    \* function, and through which of its returns

vars == <<power_enabled, vdd18, vdd3, tune_buf, tune_buf_cnt, regs,
          op, pre_power, pre_clean, pre_cnt, pre_buf, arg, ret, calls, io, pc,
          prev, repeater_type, is_host, usb_notifier, num_elem,
          param_override_seq, param_override_seq_cnt,
          param_host_override_seq, param_host_override_seq_cnt, probe_ret,
          idx, played, text, er_tune_lock, tpc, acc, left>>

powerVars == <<power_enabled, vdd18, vdd3>>
tuneVars  == <<tune_buf, tune_buf_cnt, regs>>
\* what probe sets and no handler assigns
cfgVars   == <<repeater_type, is_host, usb_notifier, num_elem,
               param_override_seq, param_override_seq_cnt,
               param_host_override_seq, param_host_override_seq_cnt, probe_ret>>
walkVars  == <<idx, played, text>>
lockVars  == <<er_tune_lock, tpc, acc, left>>

-----------------------------------------------------------------------------
(* Program constants.                                                      *)

EUSB2_3P0_VOL_MIN == 3075000
EUSB2_3P0_VOL_MAX == 3300000
EUSB2_3P0_HPM_LOAD == 3500
EUSB2_1P8_VOL_MIN == 1800000
EUSB2_1P8_VOL_MAX == 1800000
EUSB2_1P8_HPM_LOAD == 32000
LINK_CONTROL1 == 2
LINK_STATUS == 16
CHIP_ID_0 == 20
TUNE_BUF_COUNT == 20
TUNE_MAX_NXP == 17
TUNE_MAX_TI == 12
EINVAL == 22
TI_REPEATER == 0
NXP_REPEATER == 1
\* the number of values of a u8
U8 == 256
\* the attempts a retry loop gives one regmap call
Tries == 3

(* Bounds of the model.                                                    *)

\* an errno other than EINVAL that a regulator or the bus can report
OtherErrno == 5
\* registers 0 .. MaxReg are written through the tuning attribute
MaxReg == 20
\* values 1 .. MaxVal are written through the tuning attribute
MaxVal == 3
\* size of a write to the tuning attribute, returned on success
StoreSize == 6
\* the masks and values given to eusb2_i2c_write_reg are the multiples of
\* ByteStep, and 0xFF
ByteStep == 51
\* the buffers that are replayed hold up to MaxApply entries
MaxApply == 3
\* a device-tree override property has 0 .. MaxLen bytes, or so many more
\* than a u8 can count
MaxLen == 12

Errnos == {-EINVAL, -OtherErrno}
Results == {0} \cup Errnos

-----------------------------------------------------------------------------
(* Regulators.  A regulator holds this consumer's request: a load, a       *)
(* voltage window and whether it is enabled.  A call that reports an error *)
(* has changed nothing.                                                    *)

Rail(max) == [uA_load |-> 0, min_uV |-> 0, max_uV |-> max, enabled |-> FALSE]

\* the request of a consumer that asks for nothing
Released(rail, max) == rail.uA_load = 0 /\ rail.min_uV = 0 /\ rail.max_uV = max

RailApply(rail, c) ==
    IF c.ret # 0 THEN rail
    ELSE CASE c.fn = "set_load"    -> [rail EXCEPT !.uA_load = c.a]
           [] c.fn = "set_voltage" -> [rail EXCEPT !.min_uV = c.a, !.max_uV = c.b]
           [] c.fn = "enable"      -> [rail EXCEPT !.enabled = TRUE]
           [] c.fn = "disable"     -> [rail EXCEPT !.enabled = FALSE]

-----------------------------------------------------------------------------
(* eusb2_repeater_power.  The function is a chain of regulator calls; each *)
(* program point below is one call, named after the label or the call.     *)

Forward == <<"set_load_vdd18", "set_voltage_vdd18", "enable_vdd18",
             "set_load_vdd3", "set_voltage_vdd3", "enable_vdd3">>

Teardown == <<"disable_vdd3", "unset_vdd3", "put_vdd3_lpm",
              "disable_vdd18", "unset_vdd18", "put_vdd18_lpm">>

IsForward(at) == \E k \in 1..Len(Forward) : Forward[k] = at

IsCall(at) == IsForward(at) \/ \E k \in 1..Len(Teardown) : Teardown[k] = at

\* a variant whose put_vdd18_lpm asks for the high-power load again
CallAt_WrongReset(at) ==
    CASE at = "set_load_vdd18"    -> [rail |-> "vdd18", fn |-> "set_load",
                                      a |-> EUSB2_1P8_HPM_LOAD, b |-> 0]
      [] at = "set_voltage_vdd18" -> [rail |-> "vdd18", fn |-> "set_voltage",
                                      a |-> EUSB2_1P8_VOL_MIN, b |-> EUSB2_1P8_VOL_MAX]
      [] at = "enable_vdd18"      -> [rail |-> "vdd18", fn |-> "enable", a |-> 0, b |-> 0]
      [] at = "set_load_vdd3"     -> [rail |-> "vdd3", fn |-> "set_load",
                                      a |-> EUSB2_3P0_HPM_LOAD, b |-> 0]
      [] at = "set_voltage_vdd3"  -> [rail |-> "vdd3", fn |-> "set_voltage",
                                      a |-> EUSB2_3P0_VOL_MIN, b |-> EUSB2_3P0_VOL_MAX]
      [] at = "enable_vdd3"       -> [rail |-> "vdd3", fn |-> "enable", a |-> 0, b |-> 0]
      [] at = "disable_vdd3"      -> [rail |-> "vdd3", fn |-> "disable", a |-> 0, b |-> 0]
      [] at = "unset_vdd3"        -> [rail |-> "vdd3", fn |-> "set_voltage",
                                      a |-> 0, b |-> EUSB2_3P0_VOL_MAX]
      [] at = "put_vdd3_lpm"      -> [rail |-> "vdd3", fn |-> "set_load", a |-> 0, b |-> 0]
      [] at = "disable_vdd18"     -> [rail |-> "vdd18", fn |-> "disable", a |-> 0, b |-> 0]
      [] at = "unset_vdd18"       -> [rail |-> "vdd18", fn |-> "set_voltage",
                                      a |-> 0, b |-> EUSB2_1P8_VOL_MAX]
      [] at = "put_vdd18_lpm"     -> [rail |-> "vdd18", fn |-> "set_load",
                                      a |-> EUSB2_1P8_HPM_LOAD, b |-> 0]

\* the regulator call made at a program point
CallAt(at) ==
    CASE at = "set_load_vdd18"    -> [rail |-> "vdd18", fn |-> "set_load",
                                      a |-> EUSB2_1P8_HPM_LOAD, b |-> 0]
      [] at = "set_voltage_vdd18" -> [rail |-> "vdd18", fn |-> "set_voltage",
                                      a |-> EUSB2_1P8_VOL_MIN, b |-> EUSB2_1P8_VOL_MAX]
      [] at = "enable_vdd18"      -> [rail |-> "vdd18", fn |-> "enable", a |-> 0, b |-> 0]
      [] at = "set_load_vdd3"     -> [rail |-> "vdd3", fn |-> "set_load",
                                      a |-> EUSB2_3P0_HPM_LOAD, b |-> 0]
      [] at = "set_voltage_vdd3"  -> [rail |-> "vdd3", fn |-> "set_voltage",
                                      a |-> EUSB2_3P0_VOL_MIN, b |-> EUSB2_3P0_VOL_MAX]
      [] at = "enable_vdd3"       -> [rail |-> "vdd3", fn |-> "enable", a |-> 0, b |-> 0]
      [] at = "disable_vdd3"      -> [rail |-> "vdd3", fn |-> "disable", a |-> 0, b |-> 0]
      [] at = "unset_vdd3"        -> [rail |-> "vdd3", fn |-> "set_voltage",
                                      a |-> 0, b |-> EUSB2_3P0_VOL_MAX]
      [] at = "put_vdd3_lpm"      -> [rail |-> "vdd3", fn |-> "set_load", a |-> 0, b |-> 0]
      [] at = "disable_vdd18"     -> [rail |-> "vdd18", fn |-> "disable", a |-> 0, b |-> 0]
      [] at = "unset_vdd18"       -> [rail |-> "vdd18", fn |-> "set_voltage",
                                      a |-> 0, b |-> EUSB2_1P8_VOL_MAX]
      [] at = "put_vdd18_lpm"     -> [rail |-> "vdd18", fn |-> "set_load", a |-> 0, b |-> 0]

\* a variant that does not test the result of regulator_enable
Failed_IgnoresEnable(fn, r) ==
    IF fn = "enable" THEN FALSE ELSE IF fn = "set_load" THEN r < 0 ELSE r # 0

\* the test the code applies to a call's result: ret < 0 after
\* regulator_set_load, ret after the others
Failed(fn, r) == IF fn = "set_load" THEN r < 0 ELSE r # 0

\* a variant in which a failed enable of vdd3 jumps one label too far
OnFail_SkipsUnset(at) ==
    CASE at = "set_load_vdd18"    -> "err_vdd18"
      [] at = "set_voltage_vdd18" -> "put_vdd18_lpm"
      [] at = "enable_vdd18"      -> "unset_vdd18"
      [] at = "set_load_vdd3"     -> "disable_vdd18"
      [] at = "set_voltage_vdd3"  -> "put_vdd3_lpm"
      [] at = "enable_vdd3"       -> "put_vdd3_lpm"

\* where a failed forward call jumps
OnFail(at) ==
    CASE at = "set_load_vdd18"    -> "err_vdd18"
      [] at = "set_voltage_vdd18" -> "put_vdd18_lpm"
      [] at = "enable_vdd18"      -> "unset_vdd18"
      [] at = "set_load_vdd3"     -> "disable_vdd18"
      [] at = "set_voltage_vdd3"  -> "put_vdd3_lpm"
      [] at = "enable_vdd3"       -> "unset_vdd3"

\* a variant that does not set the load of vdd3
FallThrough_SkipsLoad(at) ==
    CASE at = "set_load_vdd18"    -> "set_voltage_vdd18"
      [] at = "set_voltage_vdd18" -> "enable_vdd18"
      [] at = "enable_vdd18"      -> "set_voltage_vdd3"
      [] at = "set_load_vdd3"     -> "set_voltage_vdd3"
      [] at = "set_voltage_vdd3"  -> "enable_vdd3"
      [] at = "enable_vdd3"       -> "turned_on"
      [] at = "disable_vdd3"      -> "unset_vdd3"
      [] at = "unset_vdd3"        -> "put_vdd3_lpm"
      [] at = "put_vdd3_lpm"      -> "disable_vdd18"
      [] at = "disable_vdd18"     -> "unset_vdd18"
      [] at = "unset_vdd18"       -> "put_vdd18_lpm"
      [] at = "put_vdd18_lpm"     -> "check_power_enabled"

\* a variant whose teardown stops after the 3.0 V rail
FallThrough_StopsEarly(at) ==
    CASE at = "set_load_vdd18"    -> "set_voltage_vdd18"
      [] at = "set_voltage_vdd18" -> "enable_vdd18"
      [] at = "enable_vdd18"      -> "set_load_vdd3"
      [] at = "set_load_vdd3"     -> "set_voltage_vdd3"
      [] at = "set_voltage_vdd3"  -> "enable_vdd3"
      [] at = "enable_vdd3"       -> "turned_on"
      [] at = "disable_vdd3"      -> "unset_vdd3"
      [] at = "unset_vdd3"        -> "put_vdd3_lpm"
      [] at = "put_vdd3_lpm"      -> "check_power_enabled"
      [] at = "disable_vdd18"     -> "unset_vdd18"
      [] at = "unset_vdd18"       -> "put_vdd18_lpm"
      [] at = "put_vdd18_lpm"     -> "check_power_enabled"

\* where control goes after a call that did not jump
FallThrough(at) ==
    CASE at = "set_load_vdd18"    -> "set_voltage_vdd18"
      [] at = "set_voltage_vdd18" -> "enable_vdd18"
      [] at = "enable_vdd18"      -> "set_load_vdd3"
      [] at = "set_load_vdd3"     -> "set_voltage_vdd3"
      [] at = "set_voltage_vdd3"  -> "enable_vdd3"
      [] at = "enable_vdd3"       -> "turned_on"
      [] at = "disable_vdd3"      -> "unset_vdd3"
      [] at = "unset_vdd3"        -> "put_vdd3_lpm"
      [] at = "put_vdd3_lpm"      -> "disable_vdd18"
      [] at = "disable_vdd18"     -> "unset_vdd18"
      [] at = "unset_vdd18"       -> "put_vdd18_lpm"
      [] at = "put_vdd18_lpm"     -> "check_power_enabled"

\* one regulator call at st.pc with result r
DoCall(st, r) ==
    LET c  == CallAt(st.pc)
        cr == [at |-> st.pc, rail |-> c.rail, fn |-> c.fn, a |-> c.a, b |-> c.b,
               ret |-> r]
    IN  [st EXCEPT
            !.pc = IF IsForward(st.pc) /\ Failed(c.fn, r)
                   THEN OnFail(st.pc) ELSE FallThrough(st.pc),
            !.ret = r,
            !.vdd18 = IF c.rail = "vdd18" THEN RailApply(@, cr) ELSE @,
            !.vdd3 = IF c.rail = "vdd3" THEN RailApply(@, cr) ELSE @,
            !.calls = Append(@, cr)]

\* a variant that returns the result of the last unwinding call
Settle_ReturnsRet(st) ==
    CASE st.pc = "turned_on" ->
            [st EXCEPT !.power_enabled = TRUE, !.pc = "idle"]
      [] st.pc = "check_power_enabled" ->
            [st EXCEPT !.power_enabled = FALSE, !.pc = "idle"]
      [] st.pc = "err_vdd18" ->
            [st EXCEPT !.power_enabled = FALSE, !.pc = "idle"]
      [] OTHER -> st

\* the code between one regulator call and the next, or the return
Settle(st) ==
    CASE st.pc = "turned_on" ->
            [st EXCEPT !.power_enabled = TRUE, !.pc = "idle"]
      [] st.pc = "check_power_enabled" ->
            IF ~st.power_enabled
            THEN [st EXCEPT !.ret = -EINVAL, !.pc = "idle"]
            ELSE [st EXCEPT !.power_enabled = FALSE, !.pc = "idle"]
      [] st.pc = "err_vdd18" ->
            [st EXCEPT !.power_enabled = FALSE, !.pc = "idle"]
      [] OTHER -> st

\* a variant without the early return
Entry_NoEarlyReturn(enabled, on) ==
    IF ~on THEN "disable_vdd3" ELSE "set_load_vdd18"

\* the program point the function starts from
Entry(enabled, on) ==
    IF enabled = on THEN "idle"
    ELSE IF ~on THEN "disable_vdd3"
    ELSE "set_load_vdd18"

\* the program points of the last handler's regulator calls that failed
FailedAt == {calls[i].at : i \in {j \in 1..Len(calls) : calls[j].ret # 0}}

\* the summary of the last handler, kept when the next one starts
Summary == [op |-> op, ret |-> ret, failed |-> FailedAt, clean |-> pre_clean]

\* the lifecycle caller enters eusb2_repeater_power(er, on)
eusb2_repeater_power(on) ==
    /\ probe_ret = 0
    /\ pc = "idle"
    /\ pc' = Entry(power_enabled, on)
    /\ ret' = 0
    /\ calls' = <<>>
    /\ pre_power' = power_enabled
    /\ pre_clean' = (Released(vdd18, EUSB2_1P8_VOL_MAX)
                      /\ Released(vdd3, EUSB2_3P0_VOL_MAX))
    /\ op' = IF on THEN "power_up" ELSE "power_down"
    /\ io' = <<>>
    /\ arg' = <<0, 0>>
    /\ pre_cnt' = tune_buf_cnt
    /\ pre_buf' = tune_buf
    /\ prev' = Summary
    /\ UNCHANGED <<powerVars, tuneVars, cfgVars, walkVars, lockVars>>

eusb2_repeater_powerup == eusb2_repeater_power(TRUE)

eusb2_repeater_powerdown == eusb2_repeater_power(FALSE)

\* the running eusb2_repeater_power makes its next regulator call and goes
\* on to the call after it, or returns
regulator_call ==
    /\ IsCall(pc)
    /\ \E r \in Results :
          LET st == Settle(DoCall([pc |-> pc, power_enabled |-> power_enabled,
                                   vdd18 |-> vdd18, vdd3 |-> vdd3,
                                   calls |-> calls, ret |-> ret], r))
          IN  /\ pc' = st.pc
              /\ power_enabled' = st.power_enabled
              /\ vdd18' = st.vdd18
              /\ vdd3' = st.vdd3
              /\ calls' = st.calls
              /\ ret' = st.ret
    /\ UNCHANGED <<tuneVars, op, pre_power, pre_clean, pre_cnt, pre_buf, arg, io, prev>>
    /\ UNCHANGED <<cfgVars, walkVars, lockVars>>

-----------------------------------------------------------------------------
(* eusb2_repeater_tune_store: the write side of the tuning attribute.  The *)
(* handler holds er_tune_lock from before its first read of tune_buf_cnt   *)
(* until it returns, and is one action.  w is the result of its            *)
(* regmap_write and r the result of its regmap_read; a result < 0 is an    *)
(* error, and a write that reports an error has not changed the register.  *)

\* a variant whose loop stops one entry early
TuneFind_SkipsLast(buf, cnt, reg) ==
    LET hit == {i \in 1..(cnt - 1) : buf[i][1] = reg}
    IN  IF hit = {} THEN 0 ELSE CHOOSE i \in hit : \A j \in hit : i <= j

\* the slot of the first counted entry for reg, or 0: the for loop
TuneFind(buf, cnt, reg) ==
    LET hit == {i \in 1..cnt : buf[i][1] = reg}
    IN  IF hit = {} THEN 0 ELSE CHOOSE i \in hit : \A j \in hit : i <= j

\* a variant that is off by one
TuneHasRoom_OffByOne(cnt) == cnt <= TUNE_BUF_COUNT

\* whether a new entry can be appended
TuneHasRoom(cnt) == cnt < TUNE_BUF_COUNT

\* a variant that reads back after a failed write too
StoreIo_ReadsAnyway(i, cnt, reg, val, w, r) ==
    IF i = 0 /\ ~TuneHasRoom(cnt) THEN <<>>
    ELSE << [fn |-> "write", reg |-> reg, val |-> val, ret |-> w],
            [fn |-> "read", reg |-> reg, val |-> val, ret |-> r] >>

\* the regmap calls the handler makes, i being the slot found
StoreIo(i, cnt, reg, val, w, r) ==
    IF i = 0 /\ ~TuneHasRoom(cnt) THEN <<>>
    ELSE <<[fn |-> "write", reg |-> reg, val |-> val, ret |-> w]>>
         \o (IF w < 0 THEN <<>>
             ELSE <<[fn |-> "read", reg |-> reg, val |-> val, ret |-> r]>>)

\* the buffer the handler leaves
StoreBuf(buf, i, cnt, reg, val, w) ==
    IF w < 0 THEN buf
    ELSE IF i # 0 THEN [buf EXCEPT ![i] = <<@[1], val>>]
    ELSE IF TuneHasRoom(cnt) THEN [buf EXCEPT ![cnt + 1] = <<reg, val>>]
    ELSE buf

\* the count the handler leaves
StoreCnt(i, cnt, w, r) ==
    IF i = 0 /\ TuneHasRoom(cnt) /\ w >= 0 /\ r >= 0 THEN cnt + 1 ELSE cnt

\* a variant that only logs a failed write
StoreRet_HidesWriteError(i, cnt, w, r, size) ==
    IF i = 0 /\ ~TuneHasRoom(cnt) THEN size
    ELSE IF w >= 0 /\ r < 0 THEN r
    ELSE size

\* the value the handler returns, size being the length of the text written
StoreRet(i, cnt, w, r, size) ==
    IF i = 0 /\ ~TuneHasRoom(cnt) THEN size
    ELSE IF w < 0 THEN w
    ELSE IF r < 0 THEN r
    ELSE size

\* the registers tuned so far
TunedRegs == {tune_buf[i][1] : i \in 1..tune_buf_cnt}

\* the registers the attribute is written with: LINK_CONTROL1 at any time,
\* the others in increasing order, and again later if they are below
\* LINK_CONTROL1
StoreRegs ==
    LET free == (0..MaxReg) \ (TunedRegs \cup {LINK_CONTROL1})
    IN  ((0..LINK_CONTROL1) \cap (TunedRegs \cup {LINK_CONTROL1}))
        \cup {x \in free : \A y \in free : x <= y}

\* the values a register is written with: LINK_CONTROL1 with any value, the
\* others with the value 1
StoreVals(reg) == IF reg = LINK_CONTROL1 THEN 1..MaxVal ELSE {1}

\* the results regmap_read can have after a regmap_write that returned w:
\* the handler does not read after a failed write
ReadResults(i, cnt, w) ==
    IF StoreIo(i, cnt, 0, 0, w, 0) = <<>> \/ w < 0 THEN {0} ELSE Results

eusb2_repeater_tune_store ==
    /\ probe_ret = 0
    /\ pc = "idle"
    /\ \E reg \in StoreRegs :
          LET i == TuneFind(tune_buf, tune_buf_cnt, reg)
          IN  \E val \in StoreVals(reg), w \in Results :
                 \E r \in ReadResults(i, tune_buf_cnt, w) :
                    LET ios == StoreIo(i, tune_buf_cnt, reg, val, w, r)
                    IN  /\ tune_buf' = StoreBuf(tune_buf, i, tune_buf_cnt, reg, val, w)
                        /\ tune_buf_cnt' = StoreCnt(i, tune_buf_cnt, w, r)
                        /\ ret' = StoreRet(i, tune_buf_cnt, w, r, StoreSize)
                        /\ io' = ios
                        /\ regs' = IF ios # <<>> /\ w >= 0
                                   THEN [regs EXCEPT ![reg] = val] ELSE regs
                        /\ arg' = <<reg, val>>
    /\ op' = "tune_store"
    /\ pre_cnt' = tune_buf_cnt
    /\ pre_buf' = tune_buf
    /\ pre_power' = power_enabled
    /\ pre_clean' = (Released(vdd18, EUSB2_1P8_VOL_MAX)
                      /\ Released(vdd3, EUSB2_3P0_VOL_MAX))
    /\ calls' = <<>>
    /\ UNCHANGED <<powerVars, pc, prev, cfgVars, walkVars, lockVars>>

-----------------------------------------------------------------------------
(* The registers behind the regmap and the two retry loops.                *)

\* what a read of register a finds: registers not written hold 0
RegGet(rs, a) == IF a \in DOMAIN rs THEN rs[a] ELSE 0

\* the registers after v has been written to register a
RegSet(rs, a, v) == [x \in DOMAIN rs \cup {a} |-> IF x = a THEN v ELSE rs[x]]

\* the results of a regmap call whose error is logged and not returned
Logged == {0, -OtherErrno}

\* a variant of the loop without the break on success
RetryRuns_NoBreak == [1..Tries -> Logged]

\* the results a loop "for (j = 0; j < 3; j++) { ret = call; if (ret < 0) log;
\* else break; }" can see: every attempt but the last has failed, and the
\* loop has gone to its third attempt only after two failures
RetryRuns ==
    {rs \in UNION {[1..n -> Logged] : n \in 1..Tries} :
        /\ \A k \in 1..(Len(rs) - 1) : rs[k] < 0
        /\ Len(rs) < Tries => rs[Len(rs)] >= 0}

\* the regmap calls of a loop that saw the results rs
IoRun(fn, reg, val, rs) ==
    [k \in 1..Len(rs) |-> [fn |-> fn, reg |-> reg, val |-> val, ret |-> rs[k]]]

\* whether a loop that saw the results rs got its call through
RunOk(rs) == rs # <<>> /\ rs[Len(rs)] >= 0

-----------------------------------------------------------------------------
(* eusb2_repeater_tune_set: the replay of the tuning buffer, called from   *)
(* eusb2_repeater_init.  One step is one iteration of its outer loop, or   *)
(* the end of that loop.                                                   *)

\* a variant that skips the entry for LINK_CONTROL1 whatever its value
TuneSkip_AnyValue(host, type, e) ==
    ~host /\ type = NXP_REPEATER /\ e[1] = 2

\* the test that leaves the write loop before its first regmap_write
TuneSkip(host, type, e) ==
    ~host /\ type = NXP_REPEATER /\ e[1] = 2 /\ e[2] = 3

\* the results the write loop of entry e can see
TuneWrites(host, type, e) ==
    IF TuneSkip(host, type, e) THEN {<<>>} ELSE RetryRuns

eusb2_repeater_tune_set ==
    /\ pc = "tune_set"
    /\ IF idx < tune_buf_cnt
       THEN LET e == tune_buf[idx + 1]
            IN  \E ws \in TuneWrites(is_host, repeater_type, e), rs \in RetryRuns :
                   /\ io' = IoRun("write", e[1], e[2], ws)
                            \o IoRun("read", e[1],
                                     RegGet(IF RunOk(ws) THEN RegSet(regs, e[1], e[2])
                                            ELSE regs, e[1]), rs)
                   /\ regs' = IF RunOk(ws) THEN RegSet(regs, e[1], e[2]) ELSE regs
                   /\ played' = IF ws # <<>>
                                THEN Append(played, [src |-> "tune", dec |-> "tune",
                                                     aoff |-> idx, voff |-> idx,
                                                     reg |-> e[1], val |-> e[2]])
                                ELSE played
                   /\ idx' = idx + 1
                   /\ UNCHANGED <<pc, ret>>
       ELSE /\ pc' = "idle"
            /\ ret' = 0
            /\ UNCHANGED <<io, regs, played, idx>>
    /\ UNCHANGED <<powerVars, tune_buf, tune_buf_cnt, op, pre_power, pre_clean,
                   pre_cnt, pre_buf, arg, calls, prev, cfgVars, text, lockVars>>

-----------------------------------------------------------------------------
(* eusb2_repeater_tune_show: the read side of the tuning attribute.  The   *)
(* handler holds er_tune_lock from its first read to its return and is one *)
(* action.                                                                 *)

\* RESET_CONTROL .. CHIP_ID_2
tune_map_nxp == <<1, 2, 3, 4, 5, 6, 7, 8, 9, 10, 13, 15, 16, 19, 20, 21, 22>>

\* GPIO0_CONFIG .. INT_STATUS_2
tune_map_ti == <<0, 64, 80, 81, 176, 178, 179, 180, 182, 183, 163, 164>>

\* the table and the bound of the loop over it
ShowMap(type) ==
    IF type = NXP_REPEATER THEN [map |-> tune_map_nxp, max |-> TUNE_MAX_NXP]
    ELSE [map |-> tune_map_ti, max |-> TUNE_MAX_TI]

\* the reads of a walk whose first n reads succeed: n = max, or read n + 1
\* fails and is the last
ShowIo(rs, map, max, n) ==
    [k \in 1..(IF n < max THEN n + 1 ELSE max) |->
        [fn |-> "read", reg |-> map[k],
         val |-> IF k <= n THEN RegGet(rs, map[k]) ELSE 0,
         ret |-> IF k <= n THEN 0 ELSE -OtherErrno]]

\* the lines str holds after n reads
ShowStr(rs, map, n) == [k \in 1..n |-> <<map[k], RegGet(rs, map[k])>>]

\* a variant that hands out the lines read before the failure
ShowText_Partial(rs, map, max, n) ==
    [failed |-> n < max, lines |-> ShowStr(rs, map, n)]

\* what the handler puts in buf: the message "Failed to read reg", or str
ShowText(rs, map, max, n) ==
    IF n < max THEN [failed |-> TRUE, lines |-> <<>>]
    ELSE [failed |-> FALSE, lines |-> ShowStr(rs, map, n)]

\* what the handler returns, the number of characters sprintf has put in buf:
\* 19 for the message, else a heading with the name of the chip, 14 for a
\* line and 1 for the last line feed
ShowRet(type, max, n) ==
    IF n < max THEN 19
    ELSE 19 + (IF type = NXP_REPEATER THEN 3 ELSE 2) + 14 * max + 1

eusb2_repeater_tune_show ==
    /\ probe_ret = 0
    /\ pc = "idle"
    /\ LET t == ShowMap(repeater_type)
       IN  \E n \in 0..t.max :
              /\ io' = ShowIo(regs, t.map, t.max, n)
              /\ text' = ShowText(regs, t.map, t.max, n)
              /\ ret' = ShowRet(repeater_type, t.max, n)
    /\ op' = "tune_show"
    /\ arg' = <<0, 0>>
    /\ calls' = <<>>
    /\ pre_cnt' = tune_buf_cnt
    /\ pre_buf' = tune_buf
    /\ pre_power' = power_enabled
    /\ pre_clean' = (Released(vdd18, EUSB2_1P8_VOL_MAX)
                      /\ Released(vdd3, EUSB2_3P0_VOL_MAX))
    /\ UNCHANGED <<powerVars, tuneVars, pc, prev, cfgVars, idx, played, lockVars>>

-----------------------------------------------------------------------------
(* eusb2_repeater_init: plays one override array, then replays the tuning  *)
(* buffer.                                                                 *)

\* probe sets er_tune_init_done and nothing clears it
er_tune_init_done == TRUE

\* a variant that takes the host array in either role
Selected_IgnoresRole(notifier, host, hcnt, pcnt) ==
    IF notifier /\ hcnt # 0 THEN "host"
    ELSE IF pcnt # 0 THEN "plain"
    ELSE "none"

\* the array eusb2_repeater_init hands to eusb2_repeater_update_seq
Selected(notifier, host, hcnt, pcnt) ==
    IF notifier /\ hcnt # 0 /\ host THEN "host"
    ELSE IF pcnt # 0 THEN "plain"
    ELSE "none"

\* where eusb2_repeater_init goes once the override array is played
AfterSeq(cnt) == IF cnt # 0 /\ er_tune_init_done THEN "tune_set" ELSE "idle"

eusb2_repeater_init ==
    /\ probe_ret = 0
    /\ pc = "idle"
    /\ pc' = IF Selected(usb_notifier, is_host, param_host_override_seq_cnt,
                         param_override_seq_cnt) # "none"
             THEN "update_seq" ELSE AfterSeq(tune_buf_cnt)
    /\ op' = "init"
    /\ ret' = 0
    /\ idx' = 0
    /\ played' = <<>>
    /\ io' = <<>>
    /\ calls' = <<>>
    /\ arg' = <<0, 0>>
    /\ pre_cnt' = tune_buf_cnt
    /\ pre_buf' = tune_buf
    /\ pre_power' = power_enabled
    /\ pre_clean' = (Released(vdd18, EUSB2_1P8_VOL_MAX)
                      /\ Released(vdd3, EUSB2_3P0_VOL_MAX))
    /\ UNCHANGED <<powerVars, tuneVars, prev, cfgVars, text, lockVars>>

-----------------------------------------------------------------------------
(* eusb2_i2c_write_reg and the two eusb2_repeater_update_seq, of which the *)
(* build has one: with CONFIG_USB_NOTIFIER the one that reads the array in *)
(* strides, without it the one that reads pairs and calls                  *)
(* eusb2_i2c_write_reg.  One step is one iteration of the loop over the    *)
(* array, or the end of that loop.                                         *)

RECURSIVE Or8(_, _, _)
\* a | b over the n low bits
Or8(a, b, n) ==
    IF n = 0 THEN 0
    ELSE (IF a % 2 = 1 \/ b % 2 = 1 THEN 1 ELSE 0) + 2 * Or8(a \div 2, b \div 2, n - 1)

RECURSIVE And8(_, _, _)
\* a & b over the n low bits
And8(a, b, n) ==
    IF n = 0 THEN 0
    ELSE (IF a % 2 = 1 /\ b % 2 = 1 THEN 1 ELSE 0) + 2 * And8(a \div 2, b \div 2, n - 1)

\* a variant that writes val as it is given
WriteReg_Overwrites(rs, reg, mask, val, r, w) ==
    IF r # 0
    THEN [regs |-> rs, ret |-> r,
          io |-> <<[fn |-> "read", reg |-> reg, val |-> 0, ret |-> r]>>]
    ELSE [regs |-> IF w >= 0 THEN RegSet(rs, reg, val) ELSE rs,
          ret |-> IF w < 0 THEN w ELSE 0,
          io |-> <<[fn |-> "read", reg |-> reg, val |-> RegGet(rs, reg), ret |-> r],
                   [fn |-> "write", reg |-> reg, val |-> val, ret |-> w]>>]

\* eusb2_i2c_write_reg(er, reg, mask, val) when its regmap_read returns r and
\* its regmap_write returns w: the registers it leaves, the calls it makes
\* and what it returns
WriteReg(rs, reg, mask, val, r, w) ==
    IF r # 0
    THEN [regs |-> rs, ret |-> r,
          io |-> <<[fn |-> "read", reg |-> reg, val |-> 0, ret |-> r]>>]
    ELSE LET out == Or8(val, And8(RegGet(rs, reg), mask, 8), 8)
         IN  [regs |-> IF w >= 0 THEN RegSet(rs, reg, out) ELSE rs,
              ret |-> IF w < 0 THEN w ELSE 0,
              io |-> <<[fn |-> "read", reg |-> reg, val |-> RegGet(rs, reg), ret |-> r],
                       [fn |-> "write", reg |-> reg, val |-> out, ret |-> w]>>]

\* the masks and values eusb2_i2c_write_reg is given
Bytes == {b \in 0..(U8 - 1) : b % ByteStep = 0} \cup {U8 - 1}

\* a call of eusb2_i2c_write_reg for LINK_CONTROL1 with any mask and value;
\* arg keeps the register, the value, the mask, and what the register held
eusb2_i2c_write_reg ==
    /\ probe_ret = 0
    /\ ~usb_notifier
    /\ pc = "idle"
    /\ \E mask \in Bytes, val \in Bytes, r \in Results, w \in Results :
          LET out == WriteReg(regs, LINK_CONTROL1, mask, val, r, w)
          IN  /\ regs' = out.regs
              /\ io' = out.io
              /\ ret' = out.ret
              /\ arg' = <<LINK_CONTROL1, val, mask, RegGet(regs, LINK_CONTROL1)>>
    /\ op' = "write_reg"
    /\ calls' = <<>>
    /\ pre_cnt' = tune_buf_cnt
    /\ pre_buf' = tune_buf
    /\ pre_power' = power_enabled
    /\ pre_clean' = (Released(vdd18, EUSB2_1P8_VOL_MAX)
                      /\ Released(vdd3, EUSB2_3P0_VOL_MAX))
    /\ UNCHANGED <<powerVars, tune_buf, tune_buf_cnt, pc, prev, cfgVars, walkVars, lockVars>>

\* what a read beyond the end of an array can find
Garbage == {0, U8 - 1}

\* what seq[off] can be, off counting from 0
Fetch(seq, off) == IF off < Len(seq) THEN {seq[off + 1]} ELSE Garbage

\* the array the running eusb2_repeater_init has handed over, and its count
SeqArg ==
    IF Selected(usb_notifier, is_host, param_host_override_seq_cnt,
                param_override_seq_cnt) = "host"
    THEN [src |-> "host", seq |-> param_host_override_seq,
          cnt |-> param_host_override_seq_cnt]
    ELSE [src |-> "plain", seq |-> param_override_seq,
          cnt |-> param_override_seq_cnt]

\* the offsets iteration i of the strided loop reads
StridedOffs(i) == [a |-> i * 4 + 7, v |-> i * 4 + 3]

\* an iteration of the loop of the build with CONFIG_USB_NOTIFIER
UpdateSeqStrided(a) ==
    \E reg \in Fetch(a.seq, StridedOffs(idx).a), val \in Fetch(a.seq, StridedOffs(idx).v) :
       \E ws \in RetryRuns :
          /\ io' = IoRun("write", reg, val, ws)
          /\ regs' = IF RunOk(ws) THEN RegSet(regs, reg, val) ELSE regs
          /\ played' = Append(played, [src |-> a.src, dec |-> "strided",
                                       aoff |-> StridedOffs(idx).a,
                                       voff |-> StridedOffs(idx).v,
                                       reg |-> reg, val |-> val])

\* an iteration of the loop of the build without CONFIG_USB_NOTIFIER
UpdateSeqPlain(a) ==
    \E r \in Results, w \in Results :
       LET out == WriteReg(regs, a.seq[idx + 2], U8 - 1, a.seq[idx + 1], r, w)
       IN  /\ io' = out.io
           /\ regs' = out.regs
           /\ played' = Append(played, [src |-> a.src, dec |-> "plain",
                                        aoff |-> idx + 1, voff |-> idx,
                                        reg |-> a.seq[idx + 2], val |-> a.seq[idx + 1]])

eusb2_repeater_update_seq ==
    /\ pc = "update_seq"
    /\ IF idx < (IF usb_notifier THEN SeqArg.cnt \div 4 ELSE SeqArg.cnt)
       THEN /\ IF usb_notifier THEN UpdateSeqStrided(SeqArg) ELSE UpdateSeqPlain(SeqArg)
            /\ idx' = idx + 2
            /\ UNCHANGED <<pc, ret>>
       ELSE /\ pc' = AfterSeq(tune_buf_cnt)
            /\ idx' = 0
            /\ ret' = 0
            /\ UNCHANGED <<io, regs, played>>
    /\ UNCHANGED <<powerVars, tune_buf, tune_buf_cnt, op, pre_power, pre_clean,
                   pre_cnt, pre_buf, arg, calls, prev, cfgVars, text, lockVars>>

-----------------------------------------------------------------------------
(* The tuning functions under concurrent callers: two writers and a reader *)
(* of the tuning attribute, and the caller of eusb2_repeater_init.  A      *)
(* caller is outside the function ("out"), at its mutex_lock ("lock") or   *)
(* between its mutex_lock and its mutex_unlock ("in"); what a function     *)
(* does between the two is one step.                                       *)

LockProcs == {"store1", "store2", "show", "init"}

\* the registers the concurrent writers store
LockRegs == {LINK_CONTROL1, LINK_STATUS}

\* a writer or the reader enters its handler, which goes to its mutex_lock
tune_attr_call ==
    /\ probe_ret = 0
    /\ \E p \in LockProcs \ {"init"} :
          /\ tpc[p] = "out"
          /\ tpc' = [tpc EXCEPT ![p] = "lock"]
    /\ UNCHANGED <<powerVars, tuneVars, op, pre_power, pre_clean, pre_cnt, pre_buf,
                   arg, ret, calls, io, pc, prev, cfgVars, walkVars,
                   er_tune_lock, acc, left>>

\* eusb2_repeater_init tests tune_buf_cnt and calls eusb2_repeater_tune_set,
\* which goes to its mutex_lock, or returns
eusb2_repeater_init_check ==
    /\ probe_ret = 0
    /\ tpc["init"] = "out"
    /\ acc' = [by |-> "init", locked |-> er_tune_lock = "init"]
    /\ tpc' = [tpc EXCEPT !["init"] =
                  IF tune_buf_cnt # 0 /\ er_tune_init_done THEN "lock" ELSE "out"]
    /\ UNCHANGED <<powerVars, tuneVars, op, pre_power, pre_clean, pre_cnt, pre_buf,
                   arg, ret, calls, io, pc, prev, cfgVars, walkVars, er_tune_lock,
                   left>>

\* mutex_lock returns to a caller once no caller holds the lock
mutex_lock ==
    /\ \E p \in LockProcs :
          /\ tpc[p] = "lock"
          /\ er_tune_lock = "none"
          /\ er_tune_lock' = p
          /\ tpc' = [tpc EXCEPT ![p] = "in"]
    /\ UNCHANGED <<powerVars, tuneVars, op, pre_power, pre_clean, pre_cnt, pre_buf,
                   arg, ret, calls, io, pc, prev, cfgVars, walkVars, acc, left>>

\* a variant whose return for a full buffer keeps the lock
Unlocks_NotWhenFull(at) ==
    at \in {"update_write_failed", "update_read_failed", "updated",
            "insert_write_failed", "insert_read_failed", "inserted",
            "show_read_failed", "shown", "replayed"}

\* the returns that come after a mutex_unlock
Unlocks(at) ==
    at \in {"update_write_failed", "update_read_failed", "updated",
            "insert_write_failed", "insert_read_failed", "inserted", "full",
            "show_read_failed", "shown", "replayed"}

\* the lock once its holder has left through the return at
Unlocked(lock, at) == IF Unlocks(at) THEN "none" ELSE lock

\* the return eusb2_repeater_tune_store leaves through
StoreReturn(i, cnt, w, r) ==
    IF i # 0
    THEN (IF w < 0 THEN "update_write_failed"
          ELSE IF r < 0 THEN "update_read_failed" ELSE "updated")
    ELSE IF TuneHasRoom(cnt)
    THEN (IF w < 0 THEN "insert_write_failed"
          ELSE IF r < 0 THEN "insert_read_failed" ELSE "inserted")
    ELSE "full"

\* the return eusb2_repeater_tune_show leaves through when its first n reads
\* succeed
ShowReturn(max, n) == IF n < max THEN "show_read_failed" ELSE "shown"

\* eusb2_repeater_tune_store from after its mutex_lock to its return
tune_store_locked ==
    /\ \E p \in {"store1", "store2"} :
          /\ tpc[p] = "in"
          /\ acc' = [by |-> p, locked |-> er_tune_lock = p]
          /\ tpc' = [tpc EXCEPT ![p] = "out"]
    /\ \E reg \in LockRegs :
          LET i == TuneFind(tune_buf, tune_buf_cnt, reg)
          IN  \E val \in StoreVals(reg), w \in Results :
                 \E r \in ReadResults(i, tune_buf_cnt, w) :
                    /\ tune_buf' = StoreBuf(tune_buf, i, tune_buf_cnt, reg, val, w)
                    /\ tune_buf_cnt' = StoreCnt(i, tune_buf_cnt, w, r)
                    /\ regs' = IF StoreIo(i, tune_buf_cnt, reg, val, w, r) # <<>> /\ w >= 0
                               THEN [regs EXCEPT ![reg] = val] ELSE regs
                    /\ left' = [by |-> er_tune_lock,
                                at |-> StoreReturn(i, tune_buf_cnt, w, r)]
                    /\ er_tune_lock' =
                          Unlocked(er_tune_lock, StoreReturn(i, tune_buf_cnt, w, r))
    /\ UNCHANGED <<powerVars, op, pre_power, pre_clean, pre_cnt, pre_buf,
                   arg, ret, calls, io, pc, prev, cfgVars, walkVars>>

\* eusb2_repeater_tune_show from after its mutex_lock to its return: it reads
\* registers and assigns nothing that is shared
tune_show_locked ==
    /\ tpc["show"] = "in"
    /\ tpc' = [tpc EXCEPT !["show"] = "out"]
    /\ \E n \in 0..ShowMap(repeater_type).max :
          /\ left' = [by |-> "show", at |-> ShowReturn(ShowMap(repeater_type).max, n)]
          /\ er_tune_lock' =
                Unlocked(er_tune_lock, ShowReturn(ShowMap(repeater_type).max, n))
    /\ UNCHANGED <<powerVars, tuneVars, op, pre_power, pre_clean, pre_cnt, pre_buf,
                   arg, ret, calls, io, pc, prev, cfgVars, walkVars, acc>>

RECURSIVE ReplayFrom(_, _, _, _)
\* the registers a replay of entries i .. cnt of buf can leave behind when
\* the entries before them can have left any of S
ReplayFrom(S, buf, i, cnt) ==
    IF i > cnt THEN S
    ELSE ReplayFrom(UNION {{IF RunOk(ws) THEN RegSet(rs, buf[i][1], buf[i][2]) ELSE rs :
                               ws \in TuneWrites(is_host, repeater_type, buf[i])} :
                              rs \in S},
                    buf, i + 1, cnt)

\* the registers a replay of entries i .. cnt of buf can leave behind
ReplayAll(rs, buf, i, cnt) == ReplayFrom({rs}, buf, i, cnt)

\* eusb2_repeater_tune_set from after its mutex_lock to its return
tune_set_locked ==
    /\ tpc["init"] = "in"
    /\ regs' \in ReplayAll(regs, tune_buf, 1, tune_buf_cnt)
    /\ acc' = [by |-> "init", locked |-> er_tune_lock = "init"]
    /\ tpc' = [tpc EXCEPT !["init"] = "out"]
    /\ left' = [by |-> "init", at |-> "replayed"]
    /\ er_tune_lock' = Unlocked(er_tune_lock, "replayed")
    /\ UNCHANGED <<powerVars, tune_buf, tune_buf_cnt, op, pre_power, pre_clean,
                   pre_cnt, pre_buf, arg, ret, calls, io, pc, prev, cfgVars, walkVars>>

-----------------------------------------------------------------------------
\* the k-th byte (from 0) of the device-tree property name
DtByte(name, k) == IF name = "host" THEN (U8 - 1 - k) % U8 ELSE (k + 1) % U8

\* what probe returns for properties of plen and hlen bytes
ProbeRet(notifier, plen, hlen) ==
    IF plen > 0 /\ plen % 2 = 1 THEN -EINVAL
    ELSE IF notifier /\ hlen > 0 /\ hlen % 2 = 1 THEN -EINVAL
    ELSE 0

\* the u8 count probe keeps for a property of n bytes
SeqCnt(n) == IF n > 0 THEN n % U8 ELSE 0

\* the array of_property_read_u8_array fills: the first cnt bytes
SeqOf(name, cnt) == [k \in 1..cnt |-> DtByte(name, k - 1)]

\* the buffer that holds the entries es, in their order
BufOf(es) == [i \in 1..TUNE_BUF_COUNT |-> IF i <= Len(es) THEN es[i] ELSE <<0, 0>>]

\* the state once probe has returned for a chip of the given type, in the
\* given role, in a build with or without CONFIG_USB_NOTIFIER, with override
\* properties of plen and hlen bytes, once the entries es have been stored
\* through the tuning attribute and the chip has been reset, which has put
\* its registers back to 0
AttachedWith(type, host, notifier, plen, hlen, es, rs) ==
    /\ power_enabled = FALSE
    /\ vdd18 = Rail(EUSB2_1P8_VOL_MAX)
    /\ vdd3 = Rail(EUSB2_3P0_VOL_MAX)
    /\ tune_buf = BufOf(es)
    /\ tune_buf_cnt = Len(es)
    /\ regs = rs
    /\ op = "none"
    /\ pre_power = FALSE
    /\ pre_clean = TRUE
    /\ pre_cnt = 0
    /\ pre_buf = [i \in 1..TUNE_BUF_COUNT |-> <<0, 0>>]
    /\ arg = <<0, 0>>
    /\ ret = 0
    /\ calls = <<>>
    /\ io = <<>>
    /\ pc = "idle"
    /\ prev = [op |-> "none", ret |-> 0, failed |-> {}, clean |-> TRUE]
    /\ repeater_type = type
    /\ is_host = host
    /\ usb_notifier = notifier
    /\ num_elem = [plain |-> plen, host |-> hlen]
    /\ probe_ret = ProbeRet(notifier, plen, hlen)
    /\ param_override_seq_cnt =
          IF plen % 2 = 0 THEN SeqCnt(plen) ELSE 0
    /\ param_override_seq =
          SeqOf("plain", IF plen % 2 = 0 THEN SeqCnt(plen) ELSE 0)
    /\ param_host_override_seq_cnt =
          IF notifier /\ ProbeRet(notifier, plen, hlen) = 0 THEN SeqCnt(hlen) ELSE 0
    /\ param_host_override_seq =
          SeqOf("host", IF notifier /\ ProbeRet(notifier, plen, hlen) = 0
                        THEN SeqCnt(hlen) ELSE 0)
    /\ idx = 0
    /\ played = <<>>
    /\ text = [failed |-> FALSE, lines |-> <<>>]
    /\ er_tune_lock = "none"
    /\ tpc = [p \in LockProcs |-> "out"]
    /\ acc = [by |-> "none", locked |-> TRUE]
    /\ left = [by |-> "none", at |-> "none"]

\* that state when the chip has been reset since the last store, which has
\* put its registers back to 0
Attached(type, host, notifier, plen, hlen, es) ==
    AttachedWith(type, host, notifier, plen, hlen, es, [r \in 0..MaxReg |-> 0])

\* the lengths a device-tree override property is given
DtLens == (0..MaxLen) \cup {U8 + n : n \in 0..MaxLen}

Init ==
    \E type \in {TI_REPEATER, NXP_REPEATER}, host \in BOOLEAN, notifier \in BOOLEAN :
        \E plen \in DtLens, hlen \in DtLens :
            Attached(type, host, notifier, plen, hlen, <<>>)

\* an NXP chip in client role whose device tree has no override property
InitPlain == Attached(NXP_REPEATER, FALSE, FALSE, 0, 0, <<>>)

NextPower == eusb2_repeater_powerup \/ eusb2_repeater_powerdown \/ regulator_call

SpecPower == InitPlain /\ [][NextPower]_vars

NextTune == eusb2_repeater_tune_store

SpecTune == InitPlain /\ [][NextTune]_vars

\* the entries of the buffers that are replayed
ApplyEntries ==
    {<<LINK_CONTROL1, v>> : v \in 1..MaxVal} \cup {<<LINK_STATUS, 1>>, <<CHIP_ID_0, 2>>}

\* the buffers that are replayed: stores leave one entry for a register
ApplyBufs ==
    {es \in UNION {[1..n -> ApplyEntries] : n \in 0..MaxApply} :
        \A i, j \in 1..Len(es) : es[i][1] = es[j][1] => i = j}

\* either chip in either role, after stores have filled the buffer
InitApply ==
    \E type \in {TI_REPEATER, NXP_REPEATER}, host \in BOOLEAN, es \in ApplyBufs :
        Attached(type, host, FALSE, 0, 0, es)

NextApply == eusb2_repeater_init \/ eusb2_repeater_tune_set

SpecApply == InitApply /\ [][NextApply]_vars

\* either build and either role, with override properties of all lengths in
\* the device tree and nothing stored
InitSeq ==
    \E host \in BOOLEAN, notifier \in BOOLEAN :
        \E plen \in DtLens, hlen \in (IF notifier THEN DtLens ELSE {0}) :
            Attached(NXP_REPEATER, host, notifier, plen, hlen, <<>>)

NextSeq == eusb2_repeater_init \/ eusb2_repeater_update_seq

SpecSeq == InitSeq /\ [][NextSeq]_vars

NextMask == eusb2_i2c_write_reg

SpecMask == InitPlain /\ [][NextMask]_vars

\* a full buffer: an entry for each of the first registers but LINK_STATUS
FullEntries ==
    [i \in 1..TUNE_BUF_COUNT |-> <<IF i - 1 < LINK_STATUS THEN i - 1 ELSE i, 1>>]

\* the registers when the entries es were the last thing written to them
RegsOf(es) ==
    [r \in 0..MaxReg |-> IF \E i \in 1..Len(es) : es[i][1] = r THEN 1 ELSE 0]

\* an NXP chip in either role, with an empty buffer, or with a full buffer
\* that was stored since the chip was reset
InitLock ==
    \E host \in BOOLEAN :
        \/ Attached(NXP_REPEATER, host, FALSE, 0, 0, <<>>)
        \/ AttachedWith(NXP_REPEATER, host, FALSE, 0, 0, FullEntries, RegsOf(FullEntries))

NextLock ==
    \/ tune_attr_call
    \/ eusb2_repeater_init_check
    \/ mutex_lock
    \/ tune_store_locked
    \/ tune_show_locked
    \/ tune_set_locked

SpecLock == InitLock /\ [][NextLock]_vars

NextShow == NextApply \/ eusb2_repeater_tune_show

SpecShow == InitApply /\ [][NextShow]_vars

Next == NextPower \/ NextTune \/ NextApply \/ NextShow \/ NextSeq \/ NextMask
           \/ NextLock

Spec == Init /\ [][Next]_vars

-----------------------------------------------------------------------------
(* Vocabulary of the properties.  The call tables below are written out    *)
(* from the statements they formalise, not taken from CallAt.              *)

Returned == pc = "idle"

Strip(c) == [rail |-> c.rail, fn |-> c.fn, a |-> c.a, b |-> c.b]

StripAll(cs) == [i \in 1..Len(cs) |-> Strip(cs[i])]

\* the six calls of a power-up, in order
UpCalls ==
    << [rail |-> "vdd18", fn |-> "set_load",    a |-> 32000,   b |-> 0],
       [rail |-> "vdd18", fn |-> "set_voltage", a |-> 1800000, b |-> 1800000],
       [rail |-> "vdd18", fn |-> "enable",      a |-> 0,       b |-> 0],
       [rail |-> "vdd3",  fn |-> "set_load",    a |-> 3500,    b |-> 0],
       [rail |-> "vdd3",  fn |-> "set_voltage", a |-> 3075000, b |-> 3300000],
       [rail |-> "vdd3",  fn |-> "enable",      a |-> 0,       b |-> 0] >>

\* the six calls of a power-down, in order; DownCalls[7 - k] undoes UpCalls[k]
DownCalls ==
    << [rail |-> "vdd3",  fn |-> "disable",     a |-> 0, b |-> 0],
       [rail |-> "vdd3",  fn |-> "set_voltage", a |-> 0, b |-> EUSB2_3P0_VOL_MAX],
       [rail |-> "vdd3",  fn |-> "set_load",    a |-> 0, b |-> 0],
       [rail |-> "vdd18", fn |-> "disable",     a |-> 0, b |-> 0],
       [rail |-> "vdd18", fn |-> "set_voltage", a |-> 0, b |-> EUSB2_1P8_VOL_MAX],
       [rail |-> "vdd18", fn |-> "set_load",    a |-> 0, b |-> 0] >>

\* a call that sets a rail up, as opposed to one that releases it
IsUpCall(c) == \E k \in 1..Len(UpCalls) : Strip(c) = UpCalls[k]

\* the positions of the last handler's calls that set a rail up and failed
UpFailures == {i \in 1..Len(calls) : IsUpCall(calls[i]) /\ calls[i].ret # 0}

\* the last handler was a power-up entered in state Off
UpFromOff == op = "power_up" /\ ~pre_power

\* ... and it has returned after one of its six steps failed
UpFailed == UpFromOff /\ Returned /\ UpFailures # {}

\* the step of the six that failed first
FailStep == CHOOSE k \in UpFailures : \A j \in UpFailures : k <= j

-----------------------------------------------------------------------------
(* C1: when a step k of a power-up from Off fails, the calls the function  *)
(* has made when it returns are steps 1..k followed by the undoing of      *)
(* steps k-1, ..., 1 in that order and nothing else (no later forward      *)
(* step), and the state is still Off.                                      *)
C1_UnwindInReverse ==
    UpFailed =>
        /\ StripAll(calls) = SubSeq(UpCalls, 1, FailStep)
                               \o SubSeq(DownCalls, 8 - FailStep, 6)
        /\ ~power_enabled

\* a power-up whose last step failed, after both rails had been set up, has
\* returned
C1_Witness ==
    UpFailed /\ FailStep = 6 /\ Len(calls) = 11 /\ calls[5].ret = 0

(* C2 as stated: two failed power-ups that failed at different steps       *)
(* return different values.                                                *)
C2_ResultNamesStep ==
    (UpFailed /\ prev.op = "power_up" /\ prev.failed # {}
        /\ Forward[FailStep] \notin prev.failed)
    => ret # prev.ret

(* C2 as amended: a failed power-up returns a negative value; it is        *)
(* -EINVAL whenever the failing step is one of steps 2..6, and the         *)
(* regulator's own error code when it is step 1.                           *)
C2_ResultOfFailedUp ==
    UpFailed =>
        /\ ret < 0
        /\ FailStep = 1 => ret = calls[1].ret
        /\ FailStep \in 2..6 => ret = -EINVAL

\* a power-up whose third step failed with another error code than EINVAL,
\* and whose unwinding calls all succeeded, has returned
C2_Witness ==
    /\ UpFailed /\ FailStep = 3 /\ calls[3].ret = -OtherErrno
    /\ \A i \in 4..Len(calls) : calls[i].ret = 0

(* C3: at every moment of a power-up from Off the setting-up calls made so *)
(* far are the first calls made, they are the first steps of the fixed     *)
(* sequence with the stated arguments, and none follows a failed one; when *)
(* the function returns without a failed step it has made exactly the six  *)
(* calls and the state is On.                                              *)
C3_ForwardPrefix ==
    UpFromOff =>
        /\ \A i \in 1..Len(calls) :
              IsUpCall(calls[i]) =>
                  /\ i <= Len(UpCalls)
                  /\ Strip(calls[i]) = UpCalls[i]
                  /\ \A j \in 1..(i - 1) : IsUpCall(calls[j]) /\ calls[j].ret = 0
        /\ (Returned /\ UpFailures = {}) =>
              StripAll(calls) = UpCalls /\ power_enabled

\* a power-up from Off has returned after six successful calls
C3_Witness ==
    UpFromOff /\ Returned /\ Len(calls) = 6 /\ UpFailures = {} /\ power_enabled

(* C4: an enable call on the 3.0 V rail is preceded, among the calls of    *)
(* the same eusb2_repeater_power call, by an enable call on the 1.8 V rail *)
(* that succeeded.                                                         *)
C4_EnableOrder ==
    \A i \in 1..Len(calls) :
        (calls[i].rail = "vdd3" /\ calls[i].fn = "enable") =>
            \E j \in 1..(i - 1) :
                calls[j].rail = "vdd18" /\ calls[j].fn = "enable" /\ calls[j].ret = 0

\* the 3.0 V rail has been asked to enable
C4_Witness ==
    \E i \in 1..Len(calls) : calls[i].rail = "vdd3" /\ calls[i].fn = "enable"

(* C5: a power-up entered in state On and a power-down entered in state    *)
(* Off return 0 at once, make no regulator call and leave the state and    *)
(* both rails as they were, however often they are repeated.               *)
C5_Idempotent ==
    [][ (pc = "idle"
           /\ \/ op' = "power_up" /\ power_enabled
              \/ op' = "power_down" /\ ~power_enabled)
        => (pc' = "idle" /\ ret' = 0 /\ calls' = <<>> /\ UNCHANGED powerVars) ]_vars

\* a second power-up in a row has been called in state On after a first one
\* was
C5_Witness ==
    /\ Returned /\ op = "power_up" /\ pre_power /\ power_enabled
    /\ prev.op = "power_up" /\ prev.ret = 0 /\ calls = <<>>

(* C6: the calls of a power-down entered in state On are at every moment   *)
(* the first calls of the fixed teardown sequence, whatever their results; *)
(* when it returns it has made all six and the state is Off.               *)
C6_Teardown ==
    (op = "power_down" /\ pre_power) =>
        /\ Len(calls) <= Len(DownCalls)
        /\ StripAll(calls) = SubSeq(DownCalls, 1, Len(calls))
        /\ Returned => (Len(calls) = Len(DownCalls) /\ ~power_enabled)

\* a power-down entered in state On has returned although its first and its
\* last call failed
C6_Witness ==
    /\ op = "power_down" /\ pre_power /\ Returned /\ Len(calls) = 6
    /\ calls[1].ret # 0 /\ calls[6].ret # 0

\* a power-down has returned that followed a power-up entered in state Off
\* with both rails released, as they are on a device that was just attached
UpThenDown ==
    /\ Returned /\ op = "power_down"
    /\ prev.op = "power_up" /\ prev.clean

(* C7 as stated: after a power-up followed by a power-down the state is    *)
(* Off and both rails have load 0 and voltage window [0, max], whatever    *)
(* the regulator calls returned.                                           *)
C7_AlwaysReleased ==
    UpThenDown =>
        /\ ~power_enabled
        /\ Released(vdd18, EUSB2_1P8_VOL_MAX)
        /\ Released(vdd3, EUSB2_3P0_VOL_MAX)

\* the resetting calls that failed in the last two handlers
ResetFailed == FailedAt \cup prev.failed

(* C7 as amended: after a power-up followed by a power-down the state is   *)
(* Off; a rail has load 0 unless a call resetting its load failed, and     *)
(* voltage window [0, max] unless a call resetting its window failed.      *)
C7_ReleasedUnlessResetFailed ==
    UpThenDown =>
        /\ ~power_enabled
        /\ "put_vdd18_lpm" \notin ResetFailed => vdd18.uA_load = 0
        /\ "unset_vdd18" \notin ResetFailed =>
              vdd18.min_uV = 0 /\ vdd18.max_uV = EUSB2_1P8_VOL_MAX
        /\ "put_vdd3_lpm" \notin ResetFailed => vdd3.uA_load = 0
        /\ "unset_vdd3" \notin ResetFailed =>
              vdd3.min_uV = 0 /\ vdd3.max_uV = EUSB2_3P0_VOL_MAX

\* a power-down that made its six calls has returned after a successful
\* power-up, the reset of the 1.8 V load having failed
C7_Witness ==
    /\ UpThenDown /\ prev.failed = {}
    /\ Len(calls) = 6 /\ FailedAt = {"put_vdd18_lpm"}

-----------------------------------------------------------------------------
(* Vocabulary of the properties of the tuning buffer.                      *)

Stored == op = "tune_store"

\* the register stored was in the buffer when the handler was entered
WasPresent == \E i \in 1..pre_cnt : pre_buf[i][1] = arg[1]

\* the entries a buffer counts, in order
Entries(buf, cnt) == [i \in 1..cnt |-> buf[i]]

BufferUnchanged ==
    tune_buf_cnt = pre_cnt /\ Entries(tune_buf, tune_buf_cnt) = Entries(pre_buf, pre_cnt)

\* the positions of the last handler's regmap calls
IoOf(fn) == {k \in 1..Len(io) : io[k].fn = fn}

IoOk(fn) == {k \in IoOf(fn) : io[k].ret >= 0}

(* C8 as stated: the buffer never counts more than 20 entries; a store of  *)
(* a register that is in the buffer replaces the value of its entry and    *)
(* leaves the count; a store of a new register at count 20 changes neither *)
(* count nor entries, writes no register and returns success.              *)
C8_BoundedUpdateReject ==
    /\ tune_buf_cnt <= 20
    /\ (Stored /\ WasPresent) =>
          /\ tune_buf_cnt = pre_cnt
          /\ \A i \in 1..pre_cnt : pre_buf[i][1] = arg[1] => tune_buf[i] = arg
    /\ (Stored /\ ~WasPresent /\ pre_cnt = 20) =>
          BufferUnchanged /\ io = <<>> /\ ret = StoreSize

(* C8 as amended: as above, but the value of the entry is replaced when    *)
(* the register write succeeds; when it fails the entries are as before    *)
(* and the handler returns the error of the write.                         *)
C8_BoundedUpdateRejectAmended ==
    /\ tune_buf_cnt <= 20
    /\ (Stored /\ WasPresent) =>
          /\ tune_buf_cnt = pre_cnt
          /\ IoOf("write") = {1}
          /\ io[1].ret >= 0 =>
                \A i \in 1..pre_cnt : pre_buf[i][1] = arg[1] => tune_buf[i] = arg
          /\ io[1].ret < 0 => (BufferUnchanged /\ ret = io[1].ret)
    /\ (Stored /\ ~WasPresent /\ pre_cnt = 20) =>
          BufferUnchanged /\ io = <<>> /\ ret = StoreSize

\* a store of a register that is not in the buffer has been turned down at
\* count 20
C8_Witness ==
    Stored /\ ~WasPresent /\ pre_cnt = 20 /\ tune_buf_cnt = 20 /\ io = <<>>

(* C9: when the read-back of a store fails the handler returns success and *)
(* the buffer counts the entry <<reg, val>> stored.                        *)
C9_ReadBackFailureIsSoft ==
    (Stored /\ \E k \in IoOf("read") : io[k].ret < 0) =>
        /\ ret = StoreSize
        /\ \E i \in 1..tune_buf_cnt : tune_buf[i] = arg

(* C10 as stated: an accepted store tries the register write until it      *)
(* succeeds or has been tried 3 times, and reads back at most 3 times.     *)
C10_WriteRetried ==
    (Stored /\ (WasPresent \/ pre_cnt < 20)) =>
        /\ IoOk("write") # {} \/ Cardinality(IoOf("write")) = 3
        /\ Cardinality(IoOf("write")) <= 3
        /\ Cardinality(IoOf("read")) <= 3

(* C10 as amended: an accepted store tries the register write once; when   *)
(* that write succeeds the register holds the value and the read-back is   *)
(* tried once; when it fails nothing is retried or read, the buffer is as  *)
(* before and the handler returns the error of the write.                  *)
C10_WriteOnce ==
    (Stored /\ (WasPresent \/ pre_cnt < 20)) =>
        /\ IoOf("write") = {1}
        /\ io[1].reg = arg[1] /\ io[1].val = arg[2]
        /\ io[1].ret >= 0 => (IoOf("read") = {2} /\ Len(io) = 2
                               /\ io[2].reg = arg[1] /\ regs[arg[1]] = arg[2])
        /\ io[1].ret < 0 => (Len(io) = 1 /\ BufferUnchanged /\ ret = io[1].ret)

\* a store of a new register whose only write attempt failed
C10_Witness ==
    /\ Stored /\ ~WasPresent /\ pre_cnt < 20
    /\ Len(io) = 1 /\ io[1].fn = "write" /\ io[1].ret < 0

(* C11 as stated: when the register write of a store fails the handler     *)
(* returns success and the buffer counts the entry <<reg, val>> stored.    *)
C11_WriteFailureIsSoft ==
    (Stored /\ \E k \in IoOf("write") : io[k].ret < 0) =>
        /\ ret = StoreSize
        /\ \E i \in 1..tune_buf_cnt : tune_buf[i] = arg

(* C11 as amended: when the register write of a store fails the handler    *)
(* returns the error of that write, which is negative, and neither the     *)
(* count nor any slot of the buffer has changed.                           *)
C11_WriteFailureIsReturned ==
    (Stored /\ \E k \in IoOf("write") : io[k].ret < 0) =>
        /\ ret < 0 /\ ret = io[1].ret
        /\ tune_buf_cnt = pre_cnt /\ tune_buf = pre_buf

\* a store of another value for a register in the buffer whose write failed
C11_Witness ==
    /\ Stored /\ WasPresent /\ Len(io) = 1 /\ io[1].ret = -OtherErrno
    /\ \E i \in 1..tune_buf_cnt : tune_buf[i][1] = arg[1] /\ tune_buf[i][2] # arg[2]

\* no two counted entries are for the same register
DistinctRegs(buf, cnt) ==
    \A i, j \in 1..cnt : buf[i][1] = buf[j][1] => i = j

(* C19: the counted entries are for pairwise distinct registers at every   *)
(* moment; a store keeps every entry that was counted at its slot and for  *)
(* its register, and counts at most one more entry, which is the one       *)
(* stored, at the end, and only for a register that was not in the buffer. *)
C19_DistinctAndOrdered ==
    /\ DistinctRegs(tune_buf, tune_buf_cnt)
    /\ Stored =>
          /\ tune_buf_cnt \in {pre_cnt, pre_cnt + 1}
          /\ \A i \in 1..pre_cnt : tune_buf[i][1] = pre_buf[i][1]
          /\ \A i \in 1..pre_cnt : pre_buf[i][1] # arg[1] => tune_buf[i] = pre_buf[i]
          /\ tune_buf_cnt = pre_cnt + 1 =>
                (~WasPresent /\ tune_buf[tune_buf_cnt] = arg)

\* LINK_CONTROL1 was stored second and a third register appended after it, and
\* now LINK_CONTROL1 has been stored again with another value
C19_Witness ==
    /\ Stored /\ WasPresent /\ pre_cnt = 3 /\ tune_buf_cnt = 3
    /\ arg[1] = LINK_CONTROL1 /\ tune_buf[2] = arg /\ pre_buf[2] # arg

\* eusb2_repeater_init has been entered and no other handler since
InInit == op = "init"

\* the running or finished replay has gone through the first idx entries
Replayed == InInit /\ pre_cnt > 0 /\ idx > 0

\* the writes the replay has asked for
TunePlayed == SelectSeq(played, LAMBDA p : p.src = "tune")

\* entry i of the buffer is not the host test mode setting of an NXP chip in
\* client role
Kept(i) ==
    ~(~is_host /\ repeater_type = NXP_REPEATER /\ tune_buf[i] = <<2, 3>>)

RECURSIVE KeptUpTo(_)
\* the kept entries among the first n, in the order of the buffer
KeptUpTo(n) ==
    IF n = 0 THEN <<>>
    ELSE KeptUpTo(n - 1) \o (IF Kept(n) THEN <<tune_buf[n]>> ELSE <<>>)

(* C12: the entries for which the replay has asked a register write are    *)
(* the entries it has gone through, in buffer order, less the entry        *)
(* <<0x02, 0x03>> when the chip is NXP and the role is client; and the     *)
(* writes of one iteration are writes of that iteration's entry.           *)
C12_InOrderWithSkip ==
    Replayed =>
        /\ [k \in 1..Len(TunePlayed) |-> <<TunePlayed[k].reg, TunePlayed[k].val>>]
              = KeptUpTo(idx)
        /\ (IoOf("write") # {}) <=> Kept(idx)
        /\ \A k \in IoOf("write") : <<io[k].reg, io[k].val>> = tune_buf[idx]

\* an NXP chip in client role has replayed <<0x02, 0x03>>, <<0x10, 0x01>>,
\* <<0x14, 0x02>> and has written the last two only
C12_Witness ==
    /\ Replayed /\ pc = "idle" /\ ~is_host /\ repeater_type = NXP_REPEATER
    /\ tune_buf_cnt = 3 /\ idx = 3
    /\ tune_buf[1] = <<2, 3>> /\ tune_buf[2] = <<16, 1>> /\ tune_buf[3] = <<20, 2>>
    /\ Len(played) = 2 /\ played[1].reg = 16 /\ played[2].reg = 20

\* the calls io[from .. to] are one to three attempts of which only the last
\* can have succeeded, and a third is made only after two failures
OneRun(from, to) ==
    /\ to - from + 1 \in 1..3
    /\ \A k \in from..(to - 1) : io[k].ret < 0
    /\ to - from + 1 < 3 => io[to].ret >= 0

(* C13: an iteration of the replay for an entry that is not skipped makes  *)
(* one to three write attempts, none after a success, and then one to      *)
(* three read attempts, none after a success; whatever failed, the replay  *)
(* returns only after it has gone through all counted entries; and it      *)
(* leaves the buffer and its count as they were.                           *)
C13_BoundedRetries ==
    /\ (Replayed /\ Kept(idx)) =>
          LET nw == Cardinality(IoOf("write"))
          IN  /\ IoOf("write") = 1..nw
              /\ IoOf("read") = (nw + 1)..Len(io)
              /\ OneRun(1, nw)
              /\ OneRun(nw + 1, Len(io))
    /\ (InInit /\ pc = "idle") => idx = tune_buf_cnt \/ pre_cnt = 0
    /\ InInit => (tune_buf = pre_buf /\ tune_buf_cnt = pre_cnt)

\* the first of three entries had three failed writes and three failed reads,
\* and the replay has gone on to write the second
C13_Witness ==
    /\ Replayed /\ tune_buf_cnt = 3 /\ idx = 2
    /\ Len(played) = 2 /\ regs[played[1].reg] # played[1].val
    /\ Len(io) = 6 /\ \A k \in 1..6 : io[k].ret < 0

\* eusb2_repeater_tune_show ran last
Shown == op = "tune_show"

\* the addresses the report lists for the chip, in the order it lists them
ReportTable ==
    IF repeater_type = NXP_REPEATER
    THEN <<1, 2, 3, 4, 5, 6, 7, 8, 9, 10, 13, 15, 16, 19, 20, 21, 22>>
    ELSE <<0, 64, 80, 81, 176, 178, 179, 180, 182, 183, 163, 164>>

(* C15: the report reads the addresses of the chip's table in table order, *)
(* 17 for NXP and 12 for TI; no read follows a failed one; after a failed  *)
(* read the result is the failure, without any line; and the result is the *)
(* table, one line per address with the value read, exactly when all 17 or *)
(* 12 reads succeeded.                                                     *)
C15_ReportAllOrNothing ==
    Shown =>
        /\ Len(ReportTable) = (IF repeater_type = NXP_REPEATER THEN 17 ELSE 12)
        /\ Len(io) \in 1..Len(ReportTable)
        /\ \A k \in 1..Len(io) : io[k].fn = "read" /\ io[k].reg = ReportTable[k]
        /\ \A k \in 1..(Len(io) - 1) : io[k].ret >= 0
        /\ io[Len(io)].ret < 0 => (text.failed /\ text.lines = <<>>)
        /\ io[Len(io)].ret >= 0 =>
              /\ Len(io) = Len(ReportTable)
              /\ ~text.failed
              /\ text.lines = [k \in 1..Len(io) |-> <<io[k].reg, io[k].val>>]
              /\ \A k \in 1..Len(io) : io[k].val = RegGet(regs, io[k].reg)

\* the report of an NXP chip has read a LINK_CONTROL1 that holds a value,
\* and its fifth read has failed
C15_Witness ==
    /\ Shown /\ repeater_type = NXP_REPEATER
    /\ Len(io) = 5 /\ io[5].ret < 0 /\ io[2].val # 0
    /\ text.failed /\ text.lines = <<>>

\* the override array has been played and eusb2_repeater_init has returned
SeqDone == InInit /\ pc = "idle"

\* the writes asked for from an override array
SeqPlayed == SelectSeq(played, LAMBDA p : p.src # "tune")

(* C16 as stated: in a build that decodes pairs, once init has played a    *)
(* plain override property of 2n bytes it has asked for n writes, the k-th *)
(* of the k-th value to the k-th address of the property; and for a        *)
(* property of odd length probe has failed and no register was read or     *)
(* written.                                                                *)
C16_PlainPairsAllWritten ==
    /\ (SeqDone /\ ~usb_notifier /\ num_elem.plain > 0) =>
          /\ Len(SeqPlayed) = num_elem.plain \div 2
          /\ \A k \in 1..Len(SeqPlayed) :
                /\ SeqPlayed[k].val = DtByte("plain", 2 * (k - 1))
                /\ SeqPlayed[k].reg = DtByte("plain", 2 * (k - 1) + 1)
    /\ num_elem.plain % 2 = 1 =>
          (probe_ret = -EINVAL /\ op = "none" /\ io = <<>> /\ played = <<>>)

(* C18 as stated: the writes init asks for from override arrays are all    *)
(* from one array; they are decoded in strides only if they are from the   *)
(* host array, the build has the role distinction, the host array is       *)
(* present and the role is host; and writes from the plain array are       *)
(* decoded as pairs.                                                       *)
C18_DecodingBelongsToArray ==
    InInit =>
        \A k \in 1..Len(SeqPlayed) :
            /\ SeqPlayed[k].src = SeqPlayed[1].src
            /\ SeqPlayed[k].dec = "strided" =>
                  /\ SeqPlayed[k].src = "host"
                  /\ usb_notifier /\ param_host_override_seq_cnt # 0 /\ is_host
            /\ SeqPlayed[k].src = "plain" => SeqPlayed[k].dec = "plain"

(* C18 as amended: the writes init asks for from override arrays are all   *)
(* from one array: the host array exactly when the build has the role      *)
(* distinction, the count of the host array is not 0 and the role is host, *)
(* and else the plain array, whose count is then not 0; and they are       *)
(* decoded in strides exactly when the build has the role distinction,     *)
(* whichever array they are from, and as pairs otherwise.                  *)
C18_DecodingByBuild ==
    InInit =>
        \A k \in 1..Len(SeqPlayed) :
            /\ SeqPlayed[k].src \in {"host", "plain"}
            /\ SeqPlayed[k].src = "host" <=>
                  (usb_notifier /\ param_host_override_seq_cnt # 0 /\ is_host)
            /\ SeqPlayed[k].src = "plain" => param_override_seq_cnt # 0
            /\ SeqPlayed[k].dec = (IF usb_notifier THEN "strided" ELSE "plain")

\* a build with the role distinction, in client role, with both arrays, has
\* played the plain array in strides
C18_Witness ==
    /\ SeqDone /\ usb_notifier /\ ~is_host
    /\ param_host_override_seq_cnt # 0 /\ param_override_seq_cnt # 0
    /\ Len(SeqPlayed) = 1 /\ SeqPlayed[1].src = "plain" /\ SeqPlayed[1].dec = "strided"
    /\ SeqPlayed[1].aoff < param_override_seq_cnt

(* C20 as stated: every offset the strided decoding has read, for an       *)
(* address or for a value, is smaller than the length of the array it was  *)
(* given.                                                                  *)
C20_StridedOffsetsInside ==
    InInit =>
        \A k \in 1..Len(SeqPlayed) :
            SeqPlayed[k].dec = "strided" =>
                LET len == IF SeqPlayed[k].src = "host"
                           THEN Len(param_host_override_seq)
                           ELSE Len(param_override_seq)
                IN  SeqPlayed[k].aoff < len /\ SeqPlayed[k].voff < len

\* bit k of the byte x
Bit(x, k) == (x \div (2 ^ k)) % 2

\* x is the byte that has a bit set where val has it set or cur and mask both
\* have it set
Merged(x, val, cur, mask) ==
    /\ x \in 0..255
    /\ \A k \in 0..7 :
          Bit(x, k) = 1 <=> (Bit(val, k) = 1 \/ (Bit(cur, k) = 1 /\ Bit(mask, k) = 1))

(* C17: eusb2_i2c_write_reg(reg, mask, val) first reads reg; when that     *)
(* read fails it makes no write, leaves the register as it was and returns *)
(* the error; otherwise it makes one write, of val | (cur & mask), cur     *)
(* being what reg held, and reg holds that byte when the write succeeded;  *)
(* with mask 0xFF that byte is val | cur.                                  *)
C17_WriteMasked ==
    op = "write_reg" =>
        LET reg == arg[1]  val == arg[2]  mask == arg[3]  cur == arg[4]
        IN  /\ io[1].fn = "read" /\ io[1].reg = reg
            /\ io[1].ret # 0 =>
                  /\ Len(io) = 1
                  /\ ret = io[1].ret /\ ret < 0
                  /\ RegGet(regs, reg) = cur
            /\ io[1].ret = 0 =>
                  /\ io[1].val = cur
                  /\ Len(io) = 2
                  /\ io[2].fn = "write" /\ io[2].reg = reg
                  /\ Merged(io[2].val, val, cur, mask)
                  /\ mask = 255 =>
                        \A k \in 0..7 : Bit(io[2].val, k) = 1
                                            <=> (Bit(val, k) = 1 \/ Bit(cur, k) = 1)
                  /\ io[2].ret >= 0 => (RegGet(regs, reg) = io[2].val /\ ret = 0)
                  /\ io[2].ret < 0 => (RegGet(regs, reg) = cur /\ ret = io[2].ret)

\* a write with mask 0xFF has left the register with bits that val has not
C17_Witness ==
    /\ op = "write_reg" /\ arg[3] = 255 /\ Len(io) = 2 /\ io[2].ret = 0
    /\ regs[arg[1]] # arg[2] /\ arg[4] # 0 /\ arg[2] # 0
    /\ Merged(regs[arg[1]], arg[2], arg[4], 255)

\* the callers that are between their mutex_lock and their mutex_unlock
InSection == {p \in LockProcs : tpc[p] = "in"}

\* at most one caller is in its section, and it holds the lock
OneInSection ==
    /\ Cardinality(InSection) <= 1
    /\ \A p \in InSection : er_tune_lock = p

(* C14 as stated: at most one caller of eusb2_repeater_tune_store,         *)
(* eusb2_repeater_tune_show and eusb2_repeater_tune_set is between its     *)
(* mutex_lock and its mutex_unlock, and whoever has read or written        *)
(* tune_buf_cnt held the lock when doing so.                               *)
C14_ExclusiveAndGuardedCount ==
    /\ OneInSection
    /\ acc.locked

\* no concurrent caller is between its mutex_lock and its return
NoneInProgress == InSection = {}

(* C21: whenever no caller is between the mutex_lock and the return of     *)
(* eusb2_repeater_tune_store, eusb2_repeater_tune_show or                  *)
(* eusb2_repeater_tune_set, er_tune_lock is free, whichever return the     *)
(* last of them left through, a failed write or read and the full buffer   *)
(* included; so a caller that waits at its mutex_lock is let in.           *)
C21_LockFreeWhenIdle ==
    /\ NoneInProgress => er_tune_lock = "none"
    /\ \A p \in LockProcs : er_tune_lock = p => tpc[p] = "in"
    /\ (left.by # "none" /\ tpc[left.by] # "in") => er_tune_lock # left.by
    /\ (NoneInProgress /\ \E p \in LockProcs : tpc[p] = "lock") => ENABLED mutex_lock

\* a writer has returned through the full buffer while the other writer and
\* the reader wait at their mutex_lock, and the lock is free
C21_Witness ==
    /\ left = [by |-> "store1", at |-> "full"]
    /\ tune_buf_cnt = TUNE_BUF_COUNT
    /\ tpc["store1"] = "out" /\ tpc["store2"] = "lock" /\ tpc["show"] = "lock"
    /\ NoneInProgress /\ er_tune_lock = "none"

=============================================================================
